---- MODULE Spec2Model ----
(***************************************************************************)
(* Model of the multi-tube fly climbing detector                           *)
(* (video_player/multi_tube_detector.py) and of the manual-correction and  *)
(* merge logic of its window (video_player/multi_tube_ui.py).              *)
(*                                                                         *)
(* Conventions.  Python lists are sequences; a Python index i (0-based)    *)
(* reads element i+1.  Python's None is the empty tuple for values that    *)
(* are tuples (regions, positions) and a record with none = TRUE for the   *)
(* per-tube blob lists, which the code distinguishes from [].  A frame is  *)
(* represented by what contour extraction finds in it: for every tube the  *)
(* sequence of local centroids (cx, cy) of the contours that pass the area *)
(* filter.                                                                 *)
(***************************************************************************)
EXTENDS Integers, Sequences, FiniteSets, TLC

\* ------------------------------------------------------------------ bounds
MaxTubes == 2
MaxBlobs == 2
MaxPasses == 2

\* ------------------------------------------------------- program constants
FrameWidth == 640
FrameHeight == 480

VARIABLES
    \* MultiTubeFlyDetector
    tube_count, tube_regions, genotype_names, background_frame,
    fly_positions, climbing_heights, max_heights, avg_heights,
    detection_history, has_detection_results, detection_results,
    \* MultiTubeUI
    manual_selection_history, manual_selecting,
    \* VideoPlayer: the capture (None, unopened or opened), the frame last read
    video_capture, current_frame_image,
    \* VideoPlayer: frame counter, frame count, the capture's read position
    \* (CAP_PROP_POS_FRAMES) and the playing flag
    current_frame, total_frames, capture_pos, is_playing_flag,
    \* MultiTubeFlyDetector: detection parameters
    threshold, min_area, max_area,
    \* VideoDisplayWidget: the capture-area gesture and the tube drag
    selecting_roi, roi_start_point,
    dragging_tube, dragged_tube_index, drag_start_point, drag_start_region,
    \* outcome of the last call: its name, argument, exception and return value
    ret,
    \* the call a caller is about to make with its argument, when one is chosen
    \* beforehand (the specifications of the pure functions)
    pending,
    \* the dict the last export_data call returned, as its caller holds it: the
    \* tube count by value, each list either the detector's own list object
    \* (alias) or a list the detector has dropped since (old)
    exported,
    \* history variables: detection passes since the last reset, and for each
    \* tube the single height every such pass observed (0: no pass, -1: mixed)
    passes, uniform

detVars == <<tube_count, tube_regions, genotype_names, background_frame,
             fly_positions, climbing_heights, max_heights, avg_heights,
             detection_history, has_detection_results, detection_results>>
uiVars == <<manual_selection_history, manual_selecting, video_capture,
            current_frame_image>>
histVars == <<passes, uniform>>
envVars == <<pending, exported>>
paramVars == <<threshold, min_area, max_area>>
playerVars == <<current_frame, total_frames, capture_pos, is_playing_flag>>
widgetVars == <<selecting_roi, roi_start_point, dragging_tube,
                dragged_tube_index, drag_start_point, drag_start_region>>
vars == <<detVars, uiVars, ret, histVars, envVars, paramVars, playerVars,
          widgetVars>>

\* ----------------------------------------------------------------- values
None == <<>>
NoneList == [none |-> TRUE, flies |-> <<>>]
List(s) == [none |-> FALSE, flies |-> s]

Fill(n, v) == [i \in 1 .. n |-> v]

DefaultLabel ==
    <<"tube1", "tube2", "tube3", "tube4", "tube5",
      "tube6", "tube7", "tube8", "tube9", "tube10">>
DefaultNames(n) == [i \in 1 .. n |-> DefaultLabel[i]]

RECURSIVE Gcd(_, _)
Gcd(a, b) == IF b = 0 THEN a ELSE Gcd(b, a % b)

\* The float sum / len, kept exact: a fraction in lowest terms.
Rat(n, d) == LET g == Gcd(n, d) IN [num |-> n \div g, den |-> d \div g]
Zero == [num |-> 0, den |-> 1]
RatGreater(a, b) == a.num * b.den > b.num * a.den

RECURSIVE SumSeq(_)
SumSeq(s) == IF s = <<>> THEN 0 ELSE Head(s) + SumSeq(Tail(s))

RECURSIVE MaxSeq(_)
MaxSeq(s) ==
    IF Len(s) = 1 THEN s[1]
    ELSE LET m == MaxSeq(Tail(s)) IN IF s[1] >= m THEN s[1] ELSE m

Result(op, arg, raised, value) ==
    [op |-> op, arg |-> arg, raised |-> raised, value |-> value]

Call(op, arg) == [op |-> op, arg |-> arg]
NoCall == Call("none", <<>>)

\* ------------------------------------------------------ exported references
\* a list held by the dict export_data returned: the detector's own list
\* object, or a list object the detector no longer holds
Alias == [alias |-> TRUE, old |-> <<>>]
Dropped(v) == [alias |-> FALSE, old |-> v]
NoExport ==
    [made |-> FALSE, tube_count |-> 0, genotype_names |-> Dropped(<<>>),
     detection_history |-> Dropped(<<>>), tube_regions |-> Dropped(<<>>)]

\* the detector assigns new list objects to the attributes named: the dict
\* keeps the objects it had, with the content they have now
Rebound(e, names, history, regions) ==
    [e EXCEPT
        !.genotype_names =
            IF names /\ @.alias THEN Dropped(genotype_names) ELSE @,
        !.detection_history =
            IF history /\ @.alias THEN Dropped(detection_history) ELSE @,
        !.tube_regions =
            IF regions /\ @.alias THEN Dropped(tube_regions) ELSE @]

\* VideoPlayer.is_video_loaded
IsVideoLoaded == video_capture = "opened"

\* ------------------------------------------------------------ constructor
\* MultiTubeFlyDetector.__init__(tube_count) and MultiTubeUI.__init__
WindowConstructed(n) ==
    /\ tube_count = n
    /\ tube_regions = Fill(n, None)
    /\ genotype_names = DefaultNames(n)
    /\ background_frame = "None"
    /\ fly_positions = Fill(n, None)
    /\ climbing_heights = Fill(n, 0)
    /\ max_heights = Fill(n, 0)
    /\ avg_heights = Fill(n, Zero)
    /\ detection_history = Fill(n, <<>>)
    /\ has_detection_results = FALSE
    /\ detection_results = <<>>
    /\ manual_selection_history = <<>>
    /\ manual_selecting = FALSE
    /\ threshold = 15
    /\ min_area = 40
    /\ max_area = 500
    /\ exported = NoExport
    /\ ret = Result("__init__", n, "none", 0)
    /\ passes = 0
    /\ uniform = Fill(n, 0)

\* VideoPlayer.__init__
PlayerConstructed ==
    /\ video_capture = "None"
    /\ current_frame_image = "None"
    /\ current_frame = 0
    /\ total_frames = 0
    /\ capture_pos = 0
    /\ is_playing_flag = FALSE

\* VideoDisplayWidget.__init__
WidgetConstructed ==
    /\ selecting_roi = FALSE
    /\ roi_start_point = None
    /\ dragging_tube = FALSE
    /\ dragged_tube_index = -1
    /\ drag_start_point = None
    /\ drag_start_region = None

Constructed(n) ==
    WindowConstructed(n) /\ PlayerConstructed /\ WidgetConstructed

Init == \E n \in 1 .. MaxTubes : Constructed(n) /\ pending = NoCall

\* ---------------------------------------------------------- set_tube_count
SetTubeCount(n) ==
    /\ tube_count' = n
    /\ tube_regions' = Fill(n, None)
    /\ genotype_names' = DefaultNames(n)
    /\ fly_positions' = Fill(n, None)
    /\ climbing_heights' = Fill(n, 0)
    /\ max_heights' = Fill(n, 0)
    /\ avg_heights' = Fill(n, Zero)
    /\ detection_history' = Fill(n, <<>>)
    /\ ret' = Result("set_tube_count", n, "none", 0)
    /\ passes' = 0
    /\ uniform' = Fill(n, 0)
    /\ exported' = Rebound(exported, TRUE, TRUE, TRUE)
    /\ UNCHANGED <<background_frame, has_detection_results, detection_results,
                   uiVars, pending, paramVars, widgetVars, playerVars>>

\* ---------------------------------------- set_tube_region, set_genotype_name
InRange(i, n) == 0 <= i /\ i < n

\* Regions a caller places directly (x, y, width, height), inside the frame.
RegionSet == {<<100, 100, 50, 300>>, <<200, 100, 50, 300>>}
NameSet == {"w1118"}

SetTubeRegion(i, region) ==
    /\ tube_regions' =
           IF InRange(i, tube_count)
           THEN [tube_regions EXCEPT ![i + 1] = region]
           ELSE tube_regions
    /\ ret' = Result("set_tube_region", i, "none", 0)
    /\ UNCHANGED <<tube_count, genotype_names, background_frame, fly_positions,
                   climbing_heights, max_heights, avg_heights,
                   detection_history, has_detection_results,
                   detection_results, uiVars, histVars, envVars, paramVars, widgetVars,
                   playerVars>>

SetGenotypeName(i, name) ==
    /\ genotype_names' =
           IF InRange(i, tube_count)
           THEN [genotype_names EXCEPT ![i + 1] = name]
           ELSE genotype_names
    /\ ret' = Result("set_genotype_name", i, "none", 0)
    /\ UNCHANGED <<tube_count, tube_regions, background_frame, fly_positions,
                   climbing_heights, max_heights, avg_heights,
                   detection_history, has_detection_results,
                   detection_results, uiVars, histVars, envVars, paramVars, widgetVars,
                   playerVars>>

\* ---------------------------------------------------------- set_background
SetBackground(bg) ==
    /\ background_frame' = bg
    /\ ret' = Result("set_background", 0, "none", 0)
    /\ UNCHANGED <<tube_count, tube_regions, genotype_names, fly_positions,
                   climbing_heights, max_heights, avg_heights,
                   detection_history, has_detection_results,
                   detection_results, uiVars, histVars, envVars, paramVars, widgetVars,
                   playerVars>>

\* -------------------------------------------------------- detect_all_tubes
\* Local centroids (cx, cy) of the contours kept in one tube's crop.  Every
\* region of the model is at least 50 wide and 300 high, so they lie inside.
Centroids == {<<25, 245>>, <<25, 260>>}

SeqsUpTo(S, k) == UNION {[1 .. m -> S] : m \in 0 .. k}

\* What a frame shows: per tube the contours found, none where no region is.
Observations ==
    {obs \in [1 .. tube_count -> SeqsUpTo(Centroids, MaxBlobs)] :
        \A t \in 1 .. tube_count : tube_regions[t] = None => obs[t] = <<>>}

\* (variant: the pass keeps what earlier passes appended)
KeptHistory(history) == history

\* the loop that empties every tube's history before a pass
ClearedHistory(history) == [t \in DOMAIN history |-> <<>>]

\* (global_x, global_y, height) of a contour with centroid c in a region
FlyOf(region, c) ==
    <<region[1] + c[1], region[2] + c[2], region[4] - c[2]>>

TubeFlies(region, cs) == [k \in 1 .. Len(cs) |-> FlyOf(region, cs[k])]
Heights(flies) == [k \in 1 .. Len(flies) |-> flies[k][3]]

\* (variant: the comparison of the pass's maximum reversed)
UpdatedMaxReversed(old, heights) ==
    IF MaxSeq(heights) < old THEN MaxSeq(heights) ELSE old

UpdatedMax(old, heights) ==
    IF MaxSeq(heights) > old THEN MaxSeq(heights) ELSE old

Mean(history) == Rat(SumSeq(history), Len(history))

UniformAfter(u, heights) ==
    IF Len(heights) = 1 /\ u \in {0, heights[1]} THEN heights[1] ELSE -1

DetectAllTubes(obs) ==
    /\ passes < MaxPasses
    /\ passes' = passes + 1
    /\ IF background_frame = "None"
          /\ \E t \in 1 .. tube_count : tube_regions[t] # None
       THEN \* the crop of the unset background raises at the first set region
            /\ detection_history' = ClearedHistory(detection_history)
            /\ ret' = Result("detect_all_tubes", 0, "TypeError", <<>>)
            /\ UNCHANGED <<fly_positions, climbing_heights, max_heights,
                           avg_heights, uniform>>
       ELSE LET flies == [t \in 1 .. tube_count |->
                             IF tube_regions[t] = None THEN <<>>
                             ELSE TubeFlies(tube_regions[t], obs[t])]
                hist == [t \in 1 .. tube_count |->
                             ClearedHistory(detection_history)[t]
                                 \o Heights(flies[t])]
            IN  /\ detection_history' = hist
                /\ fly_positions' = [t \in 1 .. tube_count |->
                       IF tube_regions[t] = None THEN fly_positions[t]
                       ELSE IF flies[t] = <<>> THEN None
                       ELSE <<flies[t][1][1], flies[t][1][2]>>]
                /\ climbing_heights' = [t \in 1 .. tube_count |->
                       IF tube_regions[t] = None THEN climbing_heights[t]
                       ELSE IF flies[t] = <<>> THEN 0
                       ELSE MaxSeq(Heights(flies[t]))]
                /\ max_heights' = [t \in 1 .. tube_count |->
                       IF flies[t] = <<>> THEN max_heights[t]
                       ELSE UpdatedMax(max_heights[t], Heights(flies[t]))]
                /\ avg_heights' = [t \in 1 .. tube_count |->
                       IF flies[t] = <<>> \/ hist[t] = <<>> THEN avg_heights[t]
                       ELSE Mean(hist[t])]
                /\ uniform' = [t \in 1 .. tube_count |->
                       UniformAfter(uniform[t], Heights(flies[t]))]
                /\ ret' = Result("detect_all_tubes", 0, "none", flies)
    /\ UNCHANGED <<tube_count, tube_regions, genotype_names, background_frame,
                   has_detection_results, detection_results, uiVars, envVars, paramVars, widgetVars,
                   playerVars>>

\* ------------------------------------------- apply_detection_params (UI)
\* set_threshold(threshold), then min_area and max_area written directly
ApplyDetectionParams(p) ==
    /\ threshold' = p[1]
    /\ min_area' = p[2]
    /\ max_area' = p[3]
    /\ ret' = Result("apply_detection_params", p, "none", 0)
    /\ UNCHANGED <<detVars, uiVars, histVars, envVars, playerVars,
                   widgetVars>>

\* (variant: the maxima survive the reset)
ResetDataKeepingMax ==
    /\ fly_positions' = Fill(tube_count, None)
    /\ climbing_heights' = Fill(tube_count, 0)
    /\ max_heights' = max_heights
    /\ avg_heights' = Fill(tube_count, Zero)
    /\ detection_history' = Fill(tube_count, <<>>)
    /\ detection_results' =
           IF has_detection_results THEN Fill(tube_count, NoneList)
           ELSE detection_results
    /\ ret' = Result("reset_data", 0, "none", 0)
    /\ passes' = 0
    /\ uniform' = Fill(tube_count, 0)
    /\ exported' = Rebound(exported, FALSE, TRUE, FALSE)
    /\ UNCHANGED <<tube_count, tube_regions, genotype_names, background_frame,
                   has_detection_results, uiVars, pending, paramVars, widgetVars,
                   playerVars>>

\* -------------------------------------------------------------- reset_data
ResetData ==
    /\ fly_positions' = Fill(tube_count, None)
    /\ climbing_heights' = Fill(tube_count, 0)
    /\ max_heights' = Fill(tube_count, 0)
    /\ avg_heights' = Fill(tube_count, Zero)
    /\ detection_history' = Fill(tube_count, <<>>)
    /\ detection_results' =
           IF has_detection_results THEN Fill(tube_count, NoneList)
           ELSE detection_results
    /\ ret' = Result("reset_data", 0, "none", 0)
    /\ passes' = 0
    /\ uniform' = Fill(tube_count, 0)
    /\ exported' = Rebound(exported, FALSE, TRUE, FALSE)
    /\ UNCHANGED <<tube_count, tube_regions, genotype_names, background_frame,
                   has_detection_results, uiVars, pending, paramVars, widgetVars,
                   playerVars>>

\* -------------------------------------------------------------- export_data
\* the dict holds tube_count by value and the three lists by reference
ExportData ==
    /\ exported' = [made |-> TRUE, tube_count |-> tube_count,
                    genotype_names |-> Alias, detection_history |-> Alias,
                    tube_regions |-> Alias]
    /\ ret' = Result("export_data", 0, "none",
                     [tube_count |-> tube_count,
                      genotype_names |-> genotype_names,
                      detection_history |-> detection_history,
                      tube_regions |-> tube_regions])
    /\ UNCHANGED <<detVars, uiVars, histVars, pending, paramVars, widgetVars, playerVars>>

\* what the caller reads in the dict now
Held(ref, own) == IF ref.alias THEN own ELSE ref.old

ExportedValue ==
    [tube_count |-> exported.tube_count,
     genotype_names |-> Held(exported.genotype_names, genotype_names),
     detection_history |-> Held(exported.detection_history, detection_history),
     tube_regions |-> Held(exported.tube_regions, tube_regions)]

\* the caller writes data['genotype_names'][i] = name in the dict it holds
MutateExported(i, name) ==
    /\ exported.made
    /\ InRange(i, Len(ExportedValue.genotype_names))
    /\ IF exported.genotype_names.alias
       THEN /\ genotype_names' = [genotype_names EXCEPT ![i + 1] = name]
            /\ exported' = exported
       ELSE /\ genotype_names' = genotype_names
            /\ exported' = [exported EXCEPT
                               !.genotype_names.old[i + 1] = name]
    /\ ret' = Result("data['genotype_names'][i] = name", i, "none", 0)
    /\ UNCHANGED <<tube_count, tube_regions, background_frame, fly_positions,
                   climbing_heights, max_heights, avg_heights,
                   detection_history, has_detection_results,
                   detection_results, uiVars, histVars, pending, paramVars, widgetVars,
                   playerVars>>

\* ----------------------------------------------------------------- queries
\* Python's list[i]: a negative i counts from the end; 0 when out of range.
PyIndex(s, i) ==
    IF 0 <= i /\ i < Len(s) THEN i + 1
    ELSE IF i < 0 /\ -i <= Len(s) THEN Len(s) + i + 1
    ELSE 0

QuerySet ==
    {"get_max_height", "get_avg_height", "get_current_height",
     "get_tube_height", "get_all_fly_heights"}

GetMaxHeight(i) ==
    Result("get_max_height", i, "none",
           IF InRange(i, tube_count) THEN max_heights[i + 1] ELSE 0)

GetAvgHeight(i) ==
    Result("get_avg_height", i, "none",
           IF InRange(i, tube_count) THEN avg_heights[i + 1] ELSE Zero)

GetCurrentHeight(i) ==
    Result("get_current_height", i, "none",
           IF InRange(i, tube_count) THEN climbing_heights[i + 1] ELSE 0)

GetTubeHeight(i) ==
    Result("get_tube_height", i, "none",
           IF InRange(i, tube_count) /\ tube_regions[i + 1] # None
           THEN tube_regions[i + 1][4] ELSE 0)

GetAllFlyHeights(i) ==
    IF has_detection_results /\ i < Len(detection_results)
    THEN IF PyIndex(detection_results, i) = 0
         THEN Result("get_all_fly_heights", i, "IndexError", <<>>)
         ELSE Result("get_all_fly_heights", i, "none",
                     Heights(detection_results[PyIndex(detection_results, i)].flies))
    ELSE Result("get_all_fly_heights", i, "none", <<>>)

Query(q, i) ==
    /\ ret' = CASE q = "get_max_height" -> GetMaxHeight(i)
                [] q = "get_avg_height" -> GetAvgHeight(i)
                [] q = "get_current_height" -> GetCurrentHeight(i)
                [] q = "get_tube_height" -> GetTubeHeight(i)
                [] q = "get_all_fly_heights" -> GetAllFlyHeights(i)
    /\ UNCHANGED <<detVars, uiVars, histVars, envVars, paramVars, widgetVars,
                   playerVars>>

\* -------------------------------------------------------- compare_genotypes
\* the tubes listed: region set and history not empty, in index order
GenotypeData ==
    LET Listed(t) == tube_regions[t] # None /\ detection_history[t] # <<>>
        Entry(t) == [name |-> genotype_names[t], index |-> t - 1,
                     max_height |-> max_heights[t],
                     avg_height |-> avg_heights[t],
                     current_height |-> climbing_heights[t]]
        F[t \in 0 .. tube_count] ==
            IF t = 0 THEN <<>>
            ELSE IF Listed(t) THEN Append(F[t - 1], Entry(t)) ELSE F[t - 1]
    IN  F[IF tube_count < 0 THEN 0 ELSE tube_count]

\* (variant: an entry also overtakes entries of equal key)
BeforeOrEqual(e, x) == ~RatGreater(x.avg_height, e.avg_height)

\* e goes before the first entry whose key is smaller: equal keys keep their order
Before(e, x) == RatGreater(e.avg_height, x.avg_height)

RECURSIVE InsertByAvg(_, _)
InsertByAvg(sorted, e) ==
    IF sorted = <<>> THEN <<e>>
    ELSE IF Before(e, Head(sorted)) THEN <<e>> \o sorted
    ELSE <<Head(sorted)>> \o InsertByAvg(Tail(sorted), e)

\* list.sort(key = avg_height, reverse = True): stable, descending
RECURSIVE SortByAvgDescending(_)
SortByAvgDescending(data) ==
    IF data = <<>> THEN <<>>
    ELSE InsertByAvg(SortByAvgDescending(SubSeq(data, 1, Len(data) - 1)),
                     data[Len(data)])

CompareGenotypes ==
    /\ ret' = Result("compare_genotypes", 0, "none",
                     SortByAvgDescending(GenotypeData))
    /\ UNCHANGED <<detVars, uiVars, histVars, envVars, paramVars, widgetVars,
                   playerVars>>

\* ------------------------------------------------------- auto_detect_tubes
NoRoi == <<>>

\* (variant: the offset divided after the multiplication)
SplitRegionScaled(roi, n, i) ==
    <<roi[1] + (i * roi[3]) \div n, roi[2], roi[3] \div n, roi[4]>>

\* region i of the capture area split into n columns
SplitRegion(roi, n, i) ==
    <<roi[1] + i * (roi[3] \div n), roi[2], roi[3] \div n, roi[4]>>

SplitRegions(roi, n) == [t \in 1 .. n |-> SplitRegion(roi, n, t - 1)]

\* give: whether the tube_count argument is passed (else the current count)
AutoDetectTubes(roi, give, n) ==
    LET count == IF give THEN n ELSE tube_count
        area == IF roi = NoRoi THEN <<0, 0, FrameWidth, FrameHeight>> ELSE roi
    IN  /\ IF give
           THEN /\ tube_count' = n
                /\ genotype_names' = DefaultNames(n)
                /\ fly_positions' = Fill(n, None)
                /\ climbing_heights' = Fill(n, 0)
                /\ max_heights' = Fill(n, 0)
                /\ avg_heights' = Fill(n, Zero)
                /\ detection_history' = Fill(n, <<>>)
                /\ passes' = 0
                /\ uniform' = Fill(n, 0)
           ELSE UNCHANGED <<tube_count, genotype_names, fly_positions,
                            climbing_heights, max_heights, avg_heights,
                            detection_history, histVars>>
        /\ IF count = 0
           THEN \* roi_w // 0
                /\ tube_regions' = IF give THEN Fill(n, None) ELSE tube_regions
                /\ ret' = Result("auto_detect_tubes", <<roi, give, n>>,
                                 "ZeroDivisionError", <<>>)
           ELSE /\ tube_regions' = SplitRegions(area, count)
                /\ ret' = Result("auto_detect_tubes", <<roi, give, n>>,
                                 "none", SplitRegions(area, count))
        /\ exported' = Rebound(exported, give, give, give \/ count # 0)
        /\ UNCHANGED <<background_frame, has_detection_results,
                       detection_results, uiVars, pending, paramVars, widgetVars,
                       playerVars>>

\* -------------------------------------------- merge_detection_results (UI)
MergeDistance == 10

\* (variant: a blob exactly 10 px away joins the cluster)
NearOrAt(fly, key) ==
    (fly[1] - key[1]) * (fly[1] - key[1]) + (fly[2] - key[2]) * (fly[2] - key[2])
        <= MergeDistance * MergeDistance

\* distance < 10 between a blob and a cluster's key, on the squares
Near(fly, key) ==
    (fly[1] - key[1]) * (fly[1] - key[1]) + (fly[2] - key[2]) * (fly[2] - key[2])
        < MergeDistance * MergeDistance

\* (variant: the lower of the two observations is kept)
LowerThan(fly, kept) == fly[3] < kept[3]

\* the blob replaces the cluster's content when it is strictly higher
HigherThan(fly, kept) == fly[3] > kept[3]

\* fly_positions: the clusters in insertion order, each under the position
\* that created it (its dict key) with the blob it currently holds
FirstNear(clusters, fly) ==
    LET hits == {k \in 1 .. Len(clusters) : Near(fly, clusters[k].key)}
    IN  IF hits = {} THEN 0 ELSE CHOOSE k \in hits : \A j \in hits : k <= j

AddFly(clusters, fly) ==
    LET k == FirstNear(clusters, fly) IN
    IF k = 0 THEN Append(clusters, [key |-> <<fly[1], fly[2]>>, fly |-> fly])
    ELSE IF HigherThan(fly, clusters[k].fly)
         THEN [clusters EXCEPT ![k].fly = fly]
         ELSE clusters

RECURSIVE AddFlies(_, _)
AddFlies(clusters, flies) ==
    IF flies = <<>> THEN clusters
    ELSE AddFlies(AddFly(clusters, Head(flies)), Tail(flies))

\* (variant: the blobs of all tubes of a frame go into one tube's clusters)
RECURSIVE MergeFramesMixed(_, _, _)
MergeFramesMixed(clusters, all, t) ==
    IF all = <<>> THEN clusters
    ELSE LET frame == Head(all)
             mixed == frame[t] \o frame[(t % Len(frame)) + 1]
         IN  MergeFramesMixed(AddFlies(clusters, mixed), Tail(all), t)

\* the clusters of tube t after the frames, taken in order
RECURSIVE MergeFrames(_, _, _)
MergeFrames(clusters, all, t) ==
    IF all = <<>> THEN clusters
    ELSE MergeFrames(AddFlies(clusters, Head(all)[t]), Tail(all), t)

MergedTube(all, t) ==
    LET clusters == MergeFrames(<<>>, all, t)
    IN  IF clusters = <<>> THEN NoneList
        ELSE List([k \in 1 .. Len(clusters) |-> clusters[k].fly])

\* all[f][t]: the blobs detect_all_tubes returned for tube t in frame f
MergeDetectionResults(all) ==
    [t \in 1 .. (IF all = <<>> THEN 0 ELSE Len(all[1])) |-> MergedTube(all, t)]

MergeCall(all) ==
    /\ pending = Call("merge_detection_results", all)
    /\ pending' = NoCall
    /\ ret' = Result("merge_detection_results", all, "none",
                     MergeDetectionResults(all))
    /\ UNCHANGED <<detVars, uiVars, histVars, exported, paramVars, widgetVars, playerVars>>

\* ------------------------------------------------- load_current_video (UI)
\* frames of a video of the list
VideoFrames == 10

\* opens: whether the selected file opens as a video (player.load_video)
LoadCurrentVideo(opens) ==
    IF opens
    THEN /\ video_capture' = "opened"
         /\ current_frame_image' = "frame"
         \* reset_detection_data
         /\ fly_positions' = Fill(tube_count, None)
         /\ climbing_heights' = Fill(tube_count, 0)
         /\ max_heights' = Fill(tube_count, 0)
         /\ avg_heights' = Fill(tube_count, Zero)
         /\ detection_history' = Fill(tube_count, <<>>)
         /\ detection_results' =
                IF has_detection_results THEN Fill(tube_count, NoneList)
                ELSE detection_results
         /\ passes' = 0
         /\ uniform' = Fill(tube_count, 0)
         \* background and regions
         /\ background_frame' = "None"
         /\ tube_regions' = Fill(tube_count, None)
         /\ ret' = Result("load_current_video", opens, "none", "loaded")
         /\ exported' = Rebound(exported, FALSE, TRUE, TRUE)
         \* player.load_video: the first frame is read
         /\ total_frames' = VideoFrames
         /\ current_frame' = 0
         /\ capture_pos' = 1
         /\ UNCHANGED <<tube_count, genotype_names, has_detection_results,
                        manual_selection_history, manual_selecting, pending,
                        paramVars, widgetVars, is_playing_flag>>
    ELSE /\ video_capture' = "unopened"
         /\ ret' = Result("load_current_video", opens, "none", "cannot load")
         /\ UNCHANGED <<detVars, manual_selection_history, manual_selecting,
                        current_frame_image, histVars, envVars, paramVars, widgetVars,
                        playerVars>>

\* ------------------------------------------------ reset_detection_data (UI)
ResetDetectionData ==
    /\ fly_positions' = Fill(tube_count, None)
    /\ climbing_heights' = Fill(tube_count, 0)
    /\ max_heights' = Fill(tube_count, 0)
    /\ avg_heights' = Fill(tube_count, Zero)
    /\ detection_history' = Fill(tube_count, <<>>)
    /\ detection_results' =
           IF has_detection_results THEN Fill(tube_count, NoneList)
           ELSE detection_results
    /\ passes' = 0
    /\ uniform' = Fill(tube_count, 0)
    /\ ret' = Result("reset_detection_data", 0, "none", "reset")
    /\ exported' = Rebound(exported, FALSE, TRUE, FALSE)
    /\ UNCHANGED <<tube_count, tube_regions, genotype_names, background_frame,
                   has_detection_results, uiVars, pending, paramVars, widgetVars,
                   playerVars>>

\* ----------------------------------------------- on_tube_count_changed (UI)
\* value: the new value of the tube count spin box (1 .. 10)
OnTubeCountChanged(value) ==
    /\ value # tube_count
    /\ tube_count' = value
    /\ tube_regions' = Fill(value, None)
    /\ genotype_names' = DefaultNames(value)
    /\ fly_positions' = Fill(value, None)
    /\ climbing_heights' = Fill(value, 0)
    /\ max_heights' = Fill(value, 0)
    /\ avg_heights' = Fill(value, Zero)
    /\ detection_history' = Fill(value, <<>>)
    /\ passes' = 0
    /\ uniform' = Fill(value, 0)
    /\ ret' = Result("on_tube_count_changed", value, "none", "changed")
    /\ exported' = Rebound(exported, TRUE, TRUE, TRUE)
    /\ UNCHANGED <<background_frame, has_detection_results, detection_results,
                   uiVars, pending, paramVars, widgetVars, playerVars>>

\* ------------------------------------------------------ on_roi_selected (UI)
\* the capture area drawn on the current frame is split into tube_count
\* columns by auto_detect_tubes(frame, roi, tube_count)
\* (the slot's effect on the window, the detector and the player)
RoiSelected(roi) ==
    IF current_frame_image = "None"
    THEN /\ ret' = Result("on_roi_selected", roi, "none", "no frame")
         /\ UNCHANGED <<detVars, uiVars, histVars, envVars, paramVars,
                   playerVars>>
    ELSE /\ tube_regions' = SplitRegions(roi, tube_count)
         /\ genotype_names' = DefaultNames(tube_count)
         /\ fly_positions' = Fill(tube_count, None)
         /\ climbing_heights' = Fill(tube_count, 0)
         /\ max_heights' = Fill(tube_count, 0)
         /\ avg_heights' = Fill(tube_count, Zero)
         /\ detection_history' = Fill(tube_count, <<>>)
         /\ passes' = 0
         /\ uniform' = Fill(tube_count, 0)
         /\ ret' = Result("on_roi_selected", roi, "none", "split")
         /\ exported' = Rebound(exported, TRUE, TRUE, TRUE)
         /\ UNCHANGED <<tube_count, background_frame, has_detection_results,
                        detection_results, uiVars, pending, paramVars,
                        playerVars>>

\* on_roi_selected called with the widget left as it is
OnRoiSelected(roi) == RoiSelected(roi) /\ UNCHANGED widgetVars

\* ----------------------------------------------- start_manual_selection (UI)
StartManualSelection ==
    /\ IF ~IsVideoLoaded
       THEN /\ manual_selecting' = manual_selecting
            /\ ret' = Result("start_manual_selection", 0, "none",
                             "load a video first")
       ELSE /\ manual_selecting' = ~manual_selecting
            /\ ret' = Result("start_manual_selection", 0, "none",
                             IF manual_selecting THEN "cancelled"
                             ELSE "selecting")
    /\ UNCHANGED <<detVars, manual_selection_history, video_capture,
                   current_frame_image, histVars, envVars, paramVars, widgetVars,
                   playerVars>>

\* ------------------------------------------------------- annotate_flies (UI)
\* the redraw that ends a manual edit reads tube_regions[tube_idx] for every
\* tube_idx whose entry of detection_results is not None
AnnotateRaises(results, regions) ==
    /\ IsVideoLoaded
    /\ current_frame_image # "None"
    /\ \E k \in 1 .. Len(results) : ~results[k].none /\ k > Len(regions)

\* ------------------------------------------------------ on_fly_selected (UI)
\* fly_height = y + h - fly_y, kept within [0, h]
FlyHeight(region, pos) ==
    LET raw == region[2] + region[4] - pos[2]
    IN  IF raw < 0 THEN 0 ELSE IF raw > region[4] THEN region[4] ELSE raw

\* (variant: a manual addition also enters the history and the maximum)
OnFlySelectedRecorded(tube_index, image_pos) ==
    LET r == PyIndex(tube_regions, tube_index)
        base == IF has_detection_results THEN detection_results
                ELSE Fill(tube_count, NoneList)
        d == PyIndex(base, tube_index)
        fly == <<image_pos[1], image_pos[2],
                 FlyHeight(tube_regions[r], image_pos)>>
        results == [base EXCEPT ![d] = List(Append(@.flies, fly))]
        arg == <<tube_index, image_pos>>
    IN
    IF ~manual_selecting
    THEN /\ ret' = Result("on_fly_selected", arg, "none", "ignored")
         /\ UNCHANGED <<detVars, uiVars, histVars, envVars, paramVars, widgetVars,
                   playerVars>>
    ELSE IF r = 0
    THEN /\ ret' = Result("on_fly_selected", arg, "IndexError", "no tube")
         /\ UNCHANGED <<detVars, uiVars, histVars, envVars, paramVars, widgetVars,
                   playerVars>>
    ELSE IF tube_regions[r] = None
    THEN /\ ret' = Result("on_fly_selected", arg, "none", "no region")
         /\ UNCHANGED <<detVars, uiVars, histVars, envVars, paramVars, widgetVars,
                   playerVars>>
    ELSE IF d = 0
    THEN /\ has_detection_results' = TRUE
         /\ detection_results' = base
         /\ ret' = Result("on_fly_selected", arg, "IndexError", "no entry")
         /\ UNCHANGED <<tube_count, tube_regions, genotype_names,
                        background_frame, fly_positions, climbing_heights,
                        max_heights, avg_heights, detection_history, uiVars,
                        histVars, envVars, paramVars, widgetVars,
                   playerVars>>
    ELSE /\ has_detection_results' = TRUE
         /\ detection_results' = results
         /\ manual_selection_history' =
                Append(manual_selection_history,
                       <<tube_index, fly[1], fly[2], fly[3]>>)
         /\ ret' = Result("on_fly_selected", arg,
                          IF AnnotateRaises(results, tube_regions)
                          THEN "IndexError" ELSE "none",
                          "added")
         /\ detection_history' =
                [detection_history EXCEPT ![r] = Append(@, fly[3])]
         /\ max_heights' =
                [max_heights EXCEPT ![r] = IF fly[3] > @ THEN fly[3] ELSE @]
         /\ UNCHANGED <<tube_count, tube_regions, genotype_names,
                        background_frame, fly_positions, climbing_heights,
                        avg_heights,
                        manual_selecting, video_capture, current_frame_image,
                        histVars, envVars, paramVars, widgetVars,
                   playerVars>>

OnFlySelected(tube_index, image_pos) ==
    LET r == PyIndex(tube_regions, tube_index)
        base == IF has_detection_results THEN detection_results
                ELSE Fill(tube_count, NoneList)
        d == PyIndex(base, tube_index)
        fly == <<image_pos[1], image_pos[2],
                 FlyHeight(tube_regions[r], image_pos)>>
        results == [base EXCEPT ![d] = List(Append(@.flies, fly))]
        arg == <<tube_index, image_pos>>
    IN
    IF ~manual_selecting
    THEN /\ ret' = Result("on_fly_selected", arg, "none", "ignored")
         /\ UNCHANGED <<detVars, uiVars, histVars, envVars, paramVars, widgetVars,
                   playerVars>>
    ELSE IF r = 0
    THEN /\ ret' = Result("on_fly_selected", arg, "IndexError", "no tube")
         /\ UNCHANGED <<detVars, uiVars, histVars, envVars, paramVars, widgetVars,
                   playerVars>>
    ELSE IF tube_regions[r] = None
    THEN /\ ret' = Result("on_fly_selected", arg, "none", "no region")
         /\ UNCHANGED <<detVars, uiVars, histVars, envVars, paramVars, widgetVars,
                   playerVars>>
    ELSE IF d = 0
    THEN /\ has_detection_results' = TRUE
         /\ detection_results' = base
         /\ ret' = Result("on_fly_selected", arg, "IndexError", "no entry")
         /\ UNCHANGED <<tube_count, tube_regions, genotype_names,
                        background_frame, fly_positions, climbing_heights,
                        max_heights, avg_heights, detection_history, uiVars,
                        histVars, envVars, paramVars, widgetVars,
                   playerVars>>
    ELSE /\ has_detection_results' = TRUE
         /\ detection_results' = results
         /\ manual_selection_history' =
                Append(manual_selection_history,
                       <<tube_index, fly[1], fly[2], fly[3]>>)
         /\ ret' = Result("on_fly_selected", arg,
                          IF AnnotateRaises(results, tube_regions)
                          THEN "IndexError" ELSE "none",
                          "added")
         /\ UNCHANGED <<tube_count, tube_regions, genotype_names,
                        background_frame, fly_positions, climbing_heights,
                        max_heights, avg_heights, detection_history,
                        manual_selecting, video_capture, current_frame_image,
                        histVars, envVars, paramVars, widgetVars,
                   playerVars>>

\* -------------------------------------------------- undo_last_selection (UI)
PositionTolerance == 5
HeightTolerance == 3

Abs(n) == IF n < 0 THEN -n ELSE n

\* (variant: the emptiness of the stack is not tested)
NeverEmpty(history) == FALSE

\* not self.manual_selection_history
NothingToUndo(history) == history = <<>>

\* abs(fx - fly_x) < 5 and abs(fh - fly_height) < 3
Matches(fly, selection) ==
    /\ Abs(fly[1] - selection[2]) < PositionTolerance
    /\ Abs(fly[3] - selection[4]) < HeightTolerance

\* (variant: the last blob of the list that matches is popped)
RemoveLastMatch(flies, selection) ==
    LET hits == {k \in 1 .. Len(flies) : Matches(flies[k], selection)}
    IN  IF hits = {} THEN flies
        ELSE LET k == CHOOSE h \in hits : \A j \in hits : h >= j
             IN  SubSeq(flies, 1, k - 1) \o SubSeq(flies, k + 1, Len(flies))

\* the first blob of the list that matches is popped
RemoveFirstMatch(flies, selection) ==
    LET hits == {k \in 1 .. Len(flies) : Matches(flies[k], selection)}
    IN  IF hits = {} THEN flies
        ELSE LET k == CHOOSE h \in hits : \A j \in hits : h <= j
             IN  SubSeq(flies, 1, k - 1) \o SubSeq(flies, k + 1, Len(flies))

UndoLastSelection ==
    IF NothingToUndo(manual_selection_history)
    THEN /\ ret' = Result("undo_last_selection", 0, "none", "nothing to undo")
         /\ UNCHANGED <<detVars, uiVars, histVars, envVars, paramVars, widgetVars,
                   playerVars>>
    ELSE IF manual_selection_history = <<>>
    THEN \* list.pop() of an empty list
         /\ ret' = Result("undo_last_selection", 0, "IndexError", "pop")
         /\ UNCHANGED <<detVars, uiVars, histVars, envVars, paramVars, widgetVars,
                   playerVars>>
    ELSE
    LET last == manual_selection_history[Len(manual_selection_history)]
        d == PyIndex(detection_results, last[1])
        results ==
            IF has_detection_results /\ ~detection_results[d].none
            THEN [detection_results EXCEPT
                     ![d] = List(RemoveFirstMatch(@.flies, last))]
            ELSE detection_results
    IN  /\ manual_selection_history' =
               SubSeq(manual_selection_history, 1,
                      Len(manual_selection_history) - 1)
        /\ IF has_detection_results /\ d = 0
           THEN /\ detection_results' = detection_results
                /\ ret' = Result("undo_last_selection", 0, "IndexError",
                                 "no entry")
           ELSE /\ detection_results' = results
                /\ ret' = Result("undo_last_selection", 0,
                                 IF has_detection_results
                                    /\ AnnotateRaises(results, tube_regions)
                                 THEN "IndexError" ELSE "none",
                                 "undone")
        /\ UNCHANGED <<tube_count, tube_regions, genotype_names,
                       background_frame, fly_positions, climbing_heights,
                       max_heights, avg_heights, detection_history,
                       has_detection_results, manual_selecting, video_capture,
                       current_frame_image, histVars, envVars, paramVars, widgetVars,
                   playerVars>>

\* ------------------------------------------------- set_background_frame (UI)
\* ok: the start/end frame range is valid and a frame of it can be read
SetBackgroundFrame(ok) ==
    /\ IF IsVideoLoaded /\ ok
       THEN /\ background_frame' = "bg"
            /\ ret' = Result("set_background_frame", ok, "none", "set")
       ELSE /\ background_frame' = background_frame
            /\ ret' = Result("set_background_frame", ok, "none", "warning")
    /\ UNCHANGED <<tube_count, tube_regions, genotype_names, fly_positions,
                   climbing_heights, max_heights, avg_heights,
                   detection_history, has_detection_results,
                   detection_results, uiVars, histVars, envVars, paramVars, widgetVars,
                   playerVars>>

\* ----------------------------------------------- get_top_3_sharpest_frames
Min(a, b) == IF a <= b THEN a ELSE b
Max(a, b) == IF a >= b THEN a ELSE b

SharpnessWindow == 10

\* the frames scanned: [end_frame - 10, end_frame + 10] within the video
WindowStart(end_frame) == Max(0, end_frame - SharpnessWindow)
WindowEnd(end_frame, total) == Min(total - 1, end_frame + SharpnessWindow)

\* (variant: the triple is not shifted at the ends of the window)
ThreeFramesUnshifted(start, end, sharpest) ==
    <<Max(start, sharpest - 1), sharpest, Min(end, sharpest + 1)>>

\* the sharpest frame with the frame before and the frame after it, shifted
\* to stay in the window
ThreeFrames(start, end, sharpest) ==
    LET prev == Max(start, sharpest - 1)
        next == Min(end, sharpest + 1)
    IN  IF prev = sharpest THEN <<sharpest, next, Min(end, next + 1)>>
        ELSE IF next = sharpest THEN <<Max(start, prev - 1), prev, sharpest>>
        ELSE <<prev, sharpest, next>>

\* frame_scores.sort(key=sharpness_score, reverse=True): a stable sort, frames
\* of equal score stay in the order of the scan. score[f + 1] is the score of
\* frame f.
\* (variant: a frame goes in front of the frames of equal score)
InsertAhead(sorted, f, score) ==
    LET k == Cardinality({i \in 1 .. Len(sorted) :
                              score[sorted[i] + 1] > score[f + 1]})
    IN  SubSeq(sorted, 1, k) \o <<f>> \o SubSeq(sorted, k + 1, Len(sorted))

InsertDesc(sorted, f, score) ==
    LET k == Cardinality({i \in 1 .. Len(sorted) :
                              score[sorted[i] + 1] >= score[f + 1]})
    IN  SubSeq(sorted, 1, k) \o <<f>> \o SubSeq(sorted, k + 1, Len(sorted))

RECURSIVE SortDesc(_, _, _)
SortDesc(sorted, frames, score) ==
    IF frames = <<>> THEN sorted
    ELSE SortDesc(InsertDesc(sorted, Head(frames), score), Tail(frames), score)

\* the frames of the window in scan order
Scan(start, end) == [k \in 1 .. (end - start + 1) |-> start + k - 1]

\* end_frame: self.end_frame; score: the sharpness of each frame of the video
GetTop3SharpestFrames(end_frame, score) ==
    LET start == WindowStart(end_frame)
        end == WindowEnd(end_frame, total_frames)
        frame_scores == SortDesc(<<>>, Scan(start, end), score)
    IN
    /\ pending = Call("get_top_3_sharpest_frames", <<end_frame, score>>)
    /\ pending' = NoCall
    /\ IF frame_scores = <<>>
       THEN \* frame_scores[0] of an empty list
            /\ ret' = Result("get_top_3_sharpest_frames", <<end_frame, score>>,
                             "IndexError", <<>>)
            /\ UNCHANGED <<current_frame, capture_pos, current_frame_image>>
       ELSE LET sharpest == frame_scores[1]
                numbers == ThreeFrames(start, end, sharpest)
            IN  \* seek_frame(sharpest_frame_num)
                /\ current_frame' = sharpest
                /\ capture_pos' = sharpest + 1
                /\ current_frame_image' = "frame"
                /\ ret' = Result("get_top_3_sharpest_frames",
                                 <<end_frame, score>>, "none",
                                 [sharpest |-> sharpest,
                                  frame_numbers |-> numbers,
                                  sharpness_scores |->
                                      [k \in 1 .. 3 |-> score[numbers[k] + 1]]])
    /\ UNCHANGED <<detVars, manual_selection_history, manual_selecting,
                   video_capture, histVars, exported, paramVars, widgetVars, total_frames,
                   is_playing_flag>>

\* ---------------------------------------------------- final_frame_detection
\* the detector's per-tube data after one detect_all_tubes pass that does not
\* raise, with the blobs it returns
AfterPass(d, obs) ==
    LET flies == [t \in 1 .. tube_count |->
                     IF tube_regions[t] = None THEN <<>>
                     ELSE TubeFlies(tube_regions[t], obs[t])]
        hist == [t \in 1 .. tube_count |->
                     ClearedHistory(d.detection_history)[t]
                         \o Heights(flies[t])]
    IN  [detection_history |-> hist,
         fly_positions |-> [t \in 1 .. tube_count |->
             IF tube_regions[t] = None THEN d.fly_positions[t]
             ELSE IF flies[t] = <<>> THEN None
             ELSE <<flies[t][1][1], flies[t][1][2]>>],
         climbing_heights |-> [t \in 1 .. tube_count |->
             IF tube_regions[t] = None THEN d.climbing_heights[t]
             ELSE IF flies[t] = <<>> THEN 0
             ELSE MaxSeq(Heights(flies[t]))],
         max_heights |-> [t \in 1 .. tube_count |->
             IF flies[t] = <<>> THEN d.max_heights[t]
             ELSE UpdatedMax(d.max_heights[t], Heights(flies[t]))],
         avg_heights |-> [t \in 1 .. tube_count |->
             IF flies[t] = <<>> \/ hist[t] = <<>> THEN d.avg_heights[t]
             ELSE Mean(hist[t])],
         uniform |-> [t \in 1 .. tube_count |->
             UniformAfter(d.uniform[t], Heights(flies[t]))],
         all |-> Append(d.all, flies)]

RECURSIVE AfterPasses(_, _)
AfterPasses(d, obsSeq) ==
    IF obsSeq = <<>> THEN d
    ELSE AfterPasses(AfterPass(d, Head(obsSeq)), Tail(obsSeq))

\* (variant: the run starts from the data it finds)
KeptValues ==
    [detection_history |-> detection_history,
     fly_positions |-> fly_positions,
     climbing_heights |-> climbing_heights,
     max_heights |-> max_heights,
     avg_heights |-> avg_heights,
     uniform |-> uniform,
     all |-> <<>>]

\* the detector's per-tube data after reset_data
ResetValues ==
    [detection_history |-> Fill(tube_count, <<>>),
     fly_positions |-> Fill(tube_count, None),
     climbing_heights |-> Fill(tube_count, 0),
     max_heights |-> Fill(tube_count, 0),
     avg_heights |-> Fill(tube_count, Zero),
     uniform |-> Fill(tube_count, 0),
     all |-> <<>>]

\* (variant: the background is not asked for)
NotReadyButForBackground ==
    \/ ~IsVideoLoaded
    \/ \E t \in 1 .. tube_count : tube_regions[t] = None

\* the three warnings that end final_frame_detection before it starts
NotReady ==
    \/ ~IsVideoLoaded
    \/ background_frame = "None"
    \/ \E t \in 1 .. tube_count : tube_regions[t] = None

\* end_frame: the end frame the window holds (self.end_frame); sharpest: the
\* frame of the window that comes first after the sort by sharpness;
\* shown: what the three frames used show, the same frame showing the same;
\* completed: the detection passes completed before an exception is raised
\* inside the try block, in the ranking when 0, 3 when none is raised
FinalFrameDetection(end_frame, sharpest, shown, completed) ==
    LET start == WindowStart(end_frame)
        end == WindowEnd(end_frame, total_frames)
        numbers == ThreeFrames(start, end, sharpest)
    IN
    IF NotReady
    THEN /\ ret' = Result("final_frame_detection", <<>>, "none", "warning")
         /\ UNCHANGED <<detVars, uiVars, histVars, envVars, paramVars, widgetVars,
                        playerVars>>
    ELSE /\ start <= sharpest /\ sharpest <= end
         /\ \A j, k \in 1 .. 3 : numbers[j] = numbers[k] => shown[j] = shown[k]
         \* reset_data, then one pass per frame, then the merge
         /\ \E d \in {AfterPasses(ResetValues, SubSeq(shown, 1, completed))} :
            \E merged \in {MergeDetectionResults(d.all)} :
              /\ detection_history' = d.detection_history
              /\ fly_positions' = d.fly_positions
              /\ climbing_heights' = d.climbing_heights
              /\ max_heights' = d.max_heights
              /\ avg_heights' = d.avg_heights
              /\ uniform' = d.uniform
              /\ passes' = completed
              /\ IF completed = 3
                 THEN /\ has_detection_results' = TRUE
                      /\ detection_results' = merged
                      /\ ret' = Result("final_frame_detection", numbers,
                                       "none",
                                       [all |-> d.all, merged |-> merged])
                 ELSE \* except Exception: the error is shown, nothing else
                      /\ has_detection_results' = has_detection_results
                      /\ detection_results' =
                             IF has_detection_results
                             THEN Fill(tube_count, NoneList)
                             ELSE detection_results
                      /\ ret' = Result("final_frame_detection", <<>>,
                                       "caught", "failed")
         /\ exported' = Rebound(exported, FALSE, TRUE, FALSE)
         /\ IF completed = 0
            THEN UNCHANGED <<current_frame, capture_pos, current_frame_image>>
            ELSE \* seek_frame(sharpest_frame_num)
                 /\ current_frame' = sharpest
                 /\ capture_pos' = sharpest + 1
                 /\ current_frame_image' = "frame"
         /\ UNCHANGED <<tube_count, tube_regions, genotype_names,
                        background_frame, manual_selection_history,
                        manual_selecting, video_capture, pending, paramVars, widgetVars,
                        total_frames, is_playing_flag>>

\* ------------------------------------------------------------- VideoPlayer
\* video_capture.read() delivers a frame while the position is on one of the
\* file's frames; the file holds the total_frames frames its header counts
Readable == video_capture = "opened" /\ capture_pos < total_frames

\* opens: whether the file opens as a video
LoadVideo(opens) ==
    /\ IF opens
       THEN /\ video_capture' = "opened"
            /\ total_frames' = VideoFrames
            /\ current_frame' = 0
            \* the first frame is read
            /\ capture_pos' = 1
            /\ current_frame_image' = "frame"
       ELSE /\ video_capture' = "unopened"
            /\ capture_pos' = 0
            /\ UNCHANGED <<total_frames, current_frame, current_frame_image>>
    /\ ret' = Result("load_video", opens, "none", opens)
    /\ UNCHANGED <<detVars, manual_selection_history, manual_selecting,
                   histVars, envVars, paramVars, widgetVars, is_playing_flag>>

Play ==
    /\ is_playing_flag' = (is_playing_flag \/ video_capture # "None")
    /\ ret' = Result("play", 0, "none", 0)
    /\ UNCHANGED <<detVars, uiVars, histVars, envVars, paramVars, widgetVars,
                   current_frame, total_frames, capture_pos>>

Pause ==
    /\ is_playing_flag' = FALSE
    /\ ret' = Result("pause", 0, "none", 0)
    /\ UNCHANGED <<detVars, uiVars, histVars, envVars, paramVars, widgetVars,
                   current_frame, total_frames, capture_pos>>

Stop ==
    /\ is_playing_flag' = FALSE
    /\ IF video_capture = "None"
       THEN UNCHANGED <<current_frame, capture_pos, current_frame_image>>
       ELSE /\ current_frame' = 0
            /\ IF video_capture = "opened" /\ 0 < total_frames
               THEN capture_pos' = 1 /\ current_frame_image' = "frame"
               ELSE capture_pos' = 0 /\ UNCHANGED current_frame_image
    /\ ret' = Result("stop", 0, "none", 0)
    /\ UNCHANGED <<detVars, manual_selection_history, manual_selecting,
                   video_capture, histVars, envVars, paramVars, widgetVars, total_frames>>

NextFrame ==
    /\ IF video_capture = "None"
       THEN /\ ret' = Result("next_frame", 0, "none", "none")
            /\ UNCHANGED <<current_frame, capture_pos, current_frame_image,
                           is_playing_flag>>
       ELSE IF Readable
       THEN /\ current_frame' = current_frame + 1
            /\ capture_pos' = capture_pos + 1
            /\ current_frame_image' = "frame"
            /\ ret' = Result("next_frame", 0, "none", "frame_updated")
            /\ UNCHANGED is_playing_flag
       ELSE \* no frame left: pause() and the video_finished signal
            /\ is_playing_flag' = FALSE
            /\ ret' = Result("next_frame", 0, "none", "video_finished")
            /\ UNCHANGED <<current_frame, capture_pos, current_frame_image>>
    /\ UNCHANGED <<detVars, manual_selection_history, manual_selecting,
                   video_capture, histVars, envVars, paramVars, widgetVars, total_frames>>

SeekFrame(frame_number) ==
    /\ IF video_capture = "None" \/ frame_number < 0
          \/ frame_number >= total_frames
       THEN /\ ret' = Result("seek_frame", frame_number, "none", FALSE)
            /\ UNCHANGED <<current_frame, capture_pos, current_frame_image>>
       ELSE /\ current_frame' = frame_number
            /\ IF video_capture = "opened"
               THEN /\ capture_pos' = frame_number + 1
                    /\ current_frame_image' = "frame"
                    /\ ret' = Result("seek_frame", frame_number, "none", TRUE)
               ELSE /\ ret' = Result("seek_frame", frame_number, "none", FALSE)
                    /\ UNCHANGED <<capture_pos, current_frame_image>>
    /\ UNCHANGED <<detVars, manual_selection_history, manual_selecting,
                   video_capture, histVars, envVars, paramVars, widgetVars, total_frames,
                   is_playing_flag>>

PreviousFrame ==
    /\ IF video_capture = "None" \/ current_frame <= 0
       THEN UNCHANGED <<current_frame, capture_pos, current_frame_image>>
       ELSE /\ current_frame' = current_frame - 1
            /\ IF video_capture = "opened" /\ current_frame - 1 < total_frames
               THEN capture_pos' = current_frame /\ current_frame_image' = "frame"
               ELSE UNCHANGED <<capture_pos, current_frame_image>>
    /\ ret' = Result("previous_frame", 0, "none", 0)
    /\ UNCHANGED <<detVars, manual_selection_history, manual_selecting,
                   video_capture, histVars, envVars, paramVars, widgetVars, total_frames,
                   is_playing_flag>>

UnloadVideo ==
    /\ video_capture' = "None"
    /\ total_frames' = 0
    /\ current_frame' = 0
    /\ capture_pos' = 0
    /\ is_playing_flag' = FALSE
    /\ current_frame_image' = "None"
    /\ ret' = Result("unload_video", 0, "none", 0)
    /\ UNCHANGED <<detVars, manual_selection_history, manual_selecting,
                   histVars, envVars, paramVars, widgetVars>>

\* ---------------------------------------------------------- specifications
\* The detection core: regions, background, passes, reset, comparison.
Next ==
    \/ \E n \in 0 .. MaxTubes : SetTubeCount(n)
    \/ \E i \in -1 .. MaxTubes, region \in RegionSet : SetTubeRegion(i, region)
    \/ \E bg \in {"None", "bg"} : SetBackground(bg)
    \/ \E obs \in Observations : DetectAllTubes(obs)
    \/ ResetData
    \/ CompareGenotypes

Spec == Init /\ [][Next]_vars

\* The configuration calls and the per-tube queries, on any index.
NextConfig ==
    \/ \E n \in 0 .. MaxTubes : SetTubeCount(n)
    \/ \E i \in -1 .. MaxTubes, region \in RegionSet : SetTubeRegion(i, region)
    \/ \E i \in -1 .. MaxTubes, name \in NameSet : SetGenotypeName(i, name)
    \/ \E q \in QuerySet, i \in -1 .. MaxTubes : Query(q, i)

SpecConfig == Init /\ [][NextConfig]_vars

\* Auto-split of a capture area.
MaxSplit == 4
SplitRois ==
    {<<x, 50, w, h>> : x \in {0, 100}, w \in {400, 403, 3}, h \in {300, 480}}

NextSplit ==
    \E roi \in SplitRois \cup {NoRoi}, give \in BOOLEAN, n \in 0 .. MaxSplit :
        (give \/ n = 0) /\ AutoDetectTubes(roi, give, n)

SpecSplit == Init /\ [][NextSplit]_vars

\* The merge of the detections of up to MaxFrames frames, one tube.
MaxFrames == 3
MaxMergeBlobs == 3
MergeBlobs ==
    {<<100, 200, 40>>, <<100, 200, 55>>, <<106, 200, 55>>, <<106, 200, 38>>,
     <<112, 200, 40>>, <<106, 208, 55>>, <<103, 204, 38>>}

\* blobs bs dealt to nf frames in order: blob i goes to frame f[i]
FrameSplits(len, nf) ==
    {f \in [1 .. len -> 1 .. nf] : \A i, j \in 1 .. len : i < j => f[i] <= f[j]}

FramesOf(bs, f, nf) ==
    [k \in 1 .. nf |->
        << SubSeq(bs, Cardinality({i \in DOMAIN f : f[i] < k}) + 1,
                      Cardinality({i \in DOMAIN f : f[i] <= k})) >>]

\* the frames come from the detector's own passes: one list per tube each
InitMerge ==
    \E bs \in SeqsUpTo(MergeBlobs, MaxMergeBlobs), nf \in 1 .. MaxFrames :
        \E f \in FrameSplits(Len(bs), nf) :
            /\ Constructed(1)
            /\ pending = Call("merge_detection_results", FramesOf(bs, f, nf))

NextMerge == MergeCall(pending.arg)

SpecMerge == InitMerge /\ [][NextMerge]_vars

\* The merge of the detections of one or two frames of two tubes.
TubeBlobs == {<<100, 200, 40>>, <<106, 200, 55>>, <<112, 200, 40>>}
TwoTubeFrames ==
    UNION {[1 .. nf -> [1 .. 2 -> SeqsUpTo(TubeBlobs, 2)]] : nf \in 1 .. 2}

InitMergeTubes ==
    \E all \in TwoTubeFrames :
        /\ Constructed(2)
        /\ pending = Call("merge_detection_results", all)

SpecMergeTubes == InitMergeTubes /\ [][NextMerge]_vars

\* The player alone on a video of VideoFrames frames.
SeekTargets == -1 .. VideoFrames

InitPlayer == Constructed(1) /\ pending = NoCall

NextPlayer ==
    \/ \E opens \in BOOLEAN : LoadVideo(opens)
    \/ Play
    \/ Pause
    \/ Stop
    \/ NextFrame
    \/ \E frame_number \in SeekTargets : SeekFrame(frame_number)
    \/ PreviousFrame
    \/ UnloadVideo

SpecPlayer == InitPlayer /\ [][NextPlayer]_vars

\* The frame ranker on a loaded video of up to MaxRankFrames frames.
MaxRankFrames == 12
ScoreSet == {1, 2}

InitRank ==
    \E total \in 1 .. MaxRankFrames :
        \E end_frame \in 0 .. total - 1, score \in [1 .. total -> ScoreSet] :
            /\ WindowConstructed(1)
            /\ WidgetConstructed
            \* the video is loaded
            /\ video_capture = "opened"
            /\ total_frames = total
            /\ current_frame = 0
            /\ capture_pos = 1
            /\ current_frame_image = "frame"
            /\ is_playing_flag = FALSE
            /\ pending = Call("get_top_3_sharpest_frames", <<end_frame, score>>)

NextRank ==
    /\ pending.op = "get_top_3_sharpest_frames"
    /\ GetTop3SharpestFrames(pending.arg[1], pending.arg[2])

SpecRank == InitRank /\ [][NextRank]_vars

\* The window: video, capture area, manual additions and their undo.
DefaultTubeCount == 5
MaxEdits == 2
UiRois == {<<100, 50, 400, 300>>}
\* clicks near the top edge of the first tube, the last one above it
ClickSet == {<<125, 52>>, <<128, 50>>, <<131, 48>>}

\* blobs held by the current results, all tubes together
HeldBlobs(results) ==
    SumSeq([t \in 1 .. Len(results) |-> Len(results[t].flies)])

InitManual == Constructed(DefaultTubeCount) /\ pending = NoCall

NextManual ==
    \/ \E opens \in BOOLEAN : LoadCurrentVideo(opens)
    \/ ResetDetectionData
    \/ \E value \in 1 .. MaxTubes : OnTubeCountChanged(value)
    \/ \E roi \in UiRois : OnRoiSelected(roi)
    \/ StartManualSelection
    \/ \E tube_index \in 0 .. MaxTubes, image_pos \in ClickSet :
           /\ Len(manual_selection_history) < MaxEdits
           /\ HeldBlobs(detection_results) < MaxEdits
           /\ OnFlySelected(tube_index, image_pos)
    \/ UndoLastSelection

SpecManual == InitManual /\ [][NextManual]_vars

\* One tube: every call on the detector, export and writes into the dict it
\* returned included.
CallerNames == {"edited"}
ParamSet == {<<15, 40, 500>>, <<20, 30, 400>>}

InitOneTube == Constructed(1) /\ pending = NoCall

NextOneTube ==
    \/ \E region \in RegionSet : SetTubeRegion(0, region)
    \/ \E name \in NameSet : SetGenotypeName(0, name)
    \/ SetBackground("bg")
    \/ \E obs \in Observations : DetectAllTubes(obs)
    \/ ResetData
    \/ ExportData
    \/ \E name \in CallerNames : MutateExported(0, name)
    \/ \E p \in ParamSet : ApplyDetectionParams(p)

SpecOneTube == InitOneTube /\ [][NextOneTube]_vars

\* The window on a one-tube detector: video, background, capture area, single
\* passes and final-frame detection runs.
EndFrames == {9}
\* the sharpest frame: the first, a middle or the last frame of the window
SharpestSet == {0, 4, 9}
\* frames of the run show at most one fly per tube
SingleFly == {obs \in Observations : \A t \in 1 .. tube_count : Len(obs[t]) <= 1}

InitFinal == Constructed(1) /\ pending = NoCall

NextFinal ==
    \/ \E opens \in BOOLEAN : LoadCurrentVideo(opens)
    \/ \E ok \in BOOLEAN : SetBackgroundFrame(ok)
    \/ \E roi \in UiRois : OnRoiSelected(roi)
    \/ \E obs \in Observations : DetectAllTubes(obs)
    \/ \E end_frame \in EndFrames, sharpest \in SharpestSet :
           \E shown \in [1 .. 3 -> SingleFly], completed \in 0 .. 3 :
               FinalFrameDetection(end_frame, sharpest, shown, completed)
    \/ ResetDetectionData

SpecFinal == InitFinal /\ [][NextFinal]_vars

\* The window with detection and manual correction together: final-frame
\* runs on frames that all show the same, manual additions, undo, resets,
\* another video; one tube.
SteadyShots == {[k \in 1 .. 3 |-> obs] : obs \in SingleFly}
MiddleFrame == 4

InitCorrection == Constructed(1) /\ pending = NoCall

NextCorrection ==
    \/ \E opens \in BOOLEAN : LoadCurrentVideo(opens)
    \/ SetBackgroundFrame(TRUE)
    \/ \E roi \in UiRois : OnRoiSelected(roi)
    \/ \E end_frame \in EndFrames, shown \in SteadyShots, completed \in 0 .. 3 :
           FinalFrameDetection(end_frame, MiddleFrame, shown, completed)
    \/ StartManualSelection
    \/ \E image_pos \in ClickSet :
           /\ Len(manual_selection_history) < MaxEdits
           /\ HeldBlobs(detection_results) < MaxEdits + 1
           /\ OnFlySelected(0, image_pos)
    \/ UndoLastSelection
    \/ ResetDetectionData

SpecCorrection == InitCorrection /\ [][NextCorrection]_vars

\* One tube with a label, regions and detection passes, and the capture area
\* split again into the number of tubes already configured (the count passed,
\* as on_roi_selected passes it, or omitted).
InitResplit == Constructed(1) /\ pending = NoCall

NextResplit ==
    \/ \E region \in RegionSet : SetTubeRegion(0, region)
    \/ \E name \in NameSet : SetGenotypeName(0, name)
    \/ SetBackground("bg")
    \/ \E obs \in Observations : DetectAllTubes(obs)
    \/ \E roi \in UiRois, give \in BOOLEAN :
           AutoDetectTubes(roi, give, tube_count)

SpecResplit == InitResplit /\ [][NextResplit]_vars

\* ------------------------------------------------- VideoDisplayWidget (UI)
\* The widget is shown at the size of the frame, so that display and image
\* coordinates coincide (scale_factor 1, offsets 0).  Its tube_regions is the
\* detector's list object (set_tube_regions is handed detector.tube_regions by
\* on_frame_updated and on_roi_selected) and its manual_selecting flag is
\* written together with the window's, so both are read from the detector's
\* and the window's variable.  Only left-button events are modelled.

\* QRect(x, y, w, h).contains(pos)
Contains(region, pos) ==
    /\ region[1] <= pos[1] /\ pos[1] <= region[1] + region[3] - 1
    /\ region[2] <= pos[2] /\ pos[2] <= region[2] + region[4] - 1

\* get_tube_at_position: the first tube whose region holds pos, else -1
TubeAtPosition(pos) ==
    LET hits == {i \in 1 .. Len(tube_regions) :
                    tube_regions[i] # None /\ Contains(tube_regions[i], pos)}
    IN  IF current_frame_image = "None" \/ hits = {} THEN -1
        ELSE (CHOOSE i \in hits : \A k \in hits : i <= k) - 1

\* calculate_roi: QRect(start, end).normalized() counts both corners
CalculateRoi(start, end) ==
    LET x == Max(0, Min(start[1], end[1]))
        y == Max(0, Min(start[2], end[2]))
        w == Min(FrameWidth - x, Max(start[1], end[1]) - Min(start[1], end[1]) + 1)
        h == Min(FrameHeight - y, Max(start[2], end[2]) - Min(start[2], end[2]) + 1)
    IN  IF current_frame_image = "None" \/ w <= 0 \/ h <= 0 THEN None
        ELSE <<x, y, w, h>>

\* MultiTubeUI.start_roi_selection and the widget's start_roi_selection
StartRoiSelection ==
    /\ IF ~IsVideoLoaded \/ current_frame_image = "None"
       THEN /\ UNCHANGED <<selecting_roi, roi_start_point>>
            /\ ret' = Result("start_roi_selection", 0, "none", "warning")
       ELSE /\ selecting_roi' = TRUE
            /\ roi_start_point' = None
            /\ ret' = Result("start_roi_selection", 0, "none", "selecting")
    /\ UNCHANGED <<detVars, uiVars, histVars, envVars, paramVars, playerVars,
                   dragging_tube, dragged_tube_index, drag_start_point,
                   drag_start_region>>

MousePressEvent(pos) ==
    LET tube_index == TubeAtPosition(pos)
    IN  /\ IF ~selecting_roi /\ tube_index >= 0
           THEN /\ dragging_tube' = TRUE
                /\ dragged_tube_index' = tube_index
                /\ drag_start_point' = pos
                /\ drag_start_region' = tube_regions[tube_index + 1]
                /\ ret' = Result("mousePressEvent", pos, "none", "drag")
                /\ UNCHANGED <<selecting_roi, roi_start_point>>
           ELSE IF selecting_roi
           THEN /\ roi_start_point' = pos
                /\ ret' = Result("mousePressEvent", pos, "none", "roi")
                /\ UNCHANGED <<selecting_roi, dragging_tube,
                               dragged_tube_index, drag_start_point,
                               drag_start_region>>
           ELSE /\ ret' = Result("mousePressEvent", pos, "none", "ignored")
                /\ UNCHANGED widgetVars
        /\ UNCHANGED <<detVars, uiVars, histVars, envVars, paramVars,
                       playerVars>>

\* the dragged region: drag_start_region shifted by calculate_image_offset
MovedRegion(pos) ==
    LET dx == IF current_frame_image = "None" THEN 0
              ELSE pos[1] - drag_start_point[1]
        dy == IF current_frame_image = "None" THEN 0
              ELSE pos[2] - drag_start_point[2]
    IN  <<Max(0, drag_start_region[1] + dx),
          Max(0, drag_start_region[2] + dy),
          drag_start_region[3], drag_start_region[4]>>

\* mouseMoveEvent, with on_tube_region_moved for the signal it emits
MouseMoveEvent(pos) ==
    LET d == PyIndex(tube_regions, dragged_tube_index)
        moved == [tube_regions EXCEPT ![d] = MovedRegion(pos)]
    IN  /\ IF dragging_tube /\ dragged_tube_index >= 0
           THEN IF drag_start_region = None
                THEN /\ UNCHANGED tube_regions
                     /\ ret' = Result("mouseMoveEvent", pos, "none", "ignored")
                ELSE IF d = 0
                THEN /\ UNCHANGED tube_regions
                     /\ ret' = Result("mouseMoveEvent", pos, "IndexError",
                                      "no tube")
                ELSE /\ tube_regions' = moved
                     /\ ret' = Result("mouseMoveEvent", pos,
                                      IF /\ has_detection_results
                                         /\ AnnotateRaises(detection_results,
                                                           moved)
                                      THEN "IndexError" ELSE "none",
                                      "moved")
           ELSE /\ UNCHANGED tube_regions
                /\ ret' = Result("mouseMoveEvent", pos, "none",
                                 IF selecting_roi /\ roi_start_point # None
                                 THEN "roi" ELSE "ignored")
        /\ UNCHANGED <<tube_count, genotype_names, background_frame,
                       fly_positions, climbing_heights, max_heights,
                       avg_heights, detection_history, has_detection_results,
                       detection_results, uiVars, histVars, envVars,
                       paramVars, playerVars, widgetVars>>

\* mouseReleaseEvent, with on_fly_selected and on_roi_selected for the
\* signals it emits
MouseReleaseEvent(pos) ==
    LET tube_index == TubeAtPosition(pos)
        roi == CalculateRoi(roi_start_point, pos)
    IN  IF manual_selecting
        THEN IF tube_index >= 0
             THEN OnFlySelected(tube_index, pos)
             ELSE /\ ret' = Result("mouseReleaseEvent", pos, "none", "ignored")
                  /\ UNCHANGED <<detVars, uiVars, histVars, envVars,
                                 paramVars, playerVars, widgetVars>>
        ELSE IF dragging_tube
        THEN /\ dragging_tube' = FALSE
             /\ dragged_tube_index' = -1
             /\ drag_start_point' = None
             /\ drag_start_region' = None
             /\ ret' = Result("mouseReleaseEvent", pos, "none", "dropped")
             /\ UNCHANGED <<detVars, uiVars, histVars, envVars, paramVars,
                            playerVars, selecting_roi, roi_start_point>>
        ELSE IF selecting_roi /\ roi_start_point # None
        THEN /\ selecting_roi' = FALSE
             /\ roi_start_point' = None
             /\ UNCHANGED <<dragging_tube, dragged_tube_index,
                            drag_start_point, drag_start_region>>
             /\ IF roi # None
                THEN RoiSelected(roi)
                ELSE /\ ret' = Result("mouseReleaseEvent", pos, "none",
                                      "no roi")
                     /\ UNCHANGED <<detVars, uiVars, histVars, envVars,
                                    paramVars, playerVars>>
        ELSE /\ ret' = Result("mouseReleaseEvent", pos, "none", "ignored")
             /\ UNCHANGED <<detVars, uiVars, histVars, envVars, paramVars,
                            playerVars, widgetVars>>

\* The display of a one-tube window under the mouse: the capture-area
\* gesture, tube drags and manual fly selection.
MouseSet == {<<100, 50>>, <<125, 52>>, <<135, 60>>}

InitMouse == Constructed(1) /\ pending = NoCall

NextMouse ==
    \/ LoadCurrentVideo(TRUE)
    \/ StartRoiSelection
    \/ StartManualSelection
    \/ \E pos \in MouseSet : MousePressEvent(pos)
    \/ \E pos \in MouseSet : MouseMoveEvent(pos)
    \/ \E pos \in MouseSet :
           /\ Len(manual_selection_history) < MaxEdits
           /\ HeldBlobs(detection_results) < MaxEdits
           /\ MouseReleaseEvent(pos)

SpecMouse == InitMouse /\ [][NextMouse]_vars

\* ------------------------------------------------------------------ claims
IsPrefix(s, t) == Len(s) <= Len(t) /\ SubSeq(t, 1, Len(s)) = s

IndexedOps == {"set_tube_region", "set_genotype_name"} \cup QuerySet

\* C1: a call of the region setter, the label setter or a per-tube query with
\* an index outside [0, tube_count) raises an index error.
C1_OutOfRangeIndexRaises ==
    (ret.op \in IndexedOps /\ ~InRange(ret.arg, tube_count))
        => ret.raised = "IndexError"

\* C2: set_tube_count(n) with n < 1 raises and leaves tube_count and every
\* per-tube array as they were.
C2_TubeCountBelowOneRejected ==
    [][(ret'.op = "set_tube_count" /\ ret'.arg < 1)
          => /\ ret'.raised = "ValueError"
             /\ UNCHANGED <<tube_count, tube_regions, genotype_names,
                            fly_positions, climbing_heights, max_heights,
                            avg_heights, detection_history>>]_vars

\* C3: a detection pass run while no background is set never raises and
\* returns an empty blob list for every region.
C3_DetectWithoutBackgroundIsEmpty ==
    (ret.op = "detect_all_tubes" /\ background_frame = "None")
        => /\ ret.raised = "none"
           /\ Len(ret.value) = tube_count
           /\ \A t \in 1 .. tube_count : ret.value[t] = <<>>

C8_UniformPassesThenReset ==
    /\ \A t \in 1 .. tube_count :
           uniform[t] > 0
               => /\ avg_heights[t] = [num |-> uniform[t], den |-> 1]
                  /\ max_heights[t] = uniform[t]
    /\ ret.op = "reset_data"
           => \A t \in 1 .. tube_count :
                  /\ avg_heights[t] = Zero
                  /\ max_heights[t] = 0
                  /\ detection_history[t] = <<>>

C8_Witness ==
    /\ ret.op = "detect_all_tubes" /\ ret.raised = "none"
    /\ passes >= 2
    /\ \E t \in 1 .. tube_count : uniform[t] = 55

\* C9: compare_genotypes returns one entry for each region whose history is
\* not empty and none for the others, ordered by descending avg_height, equal
\* avg_height in ascending region index.
C9_CompareGenotypesOrder ==
    ret.op = "compare_genotypes"
        => LET v == ret.value IN
           /\ \A t \in 1 .. tube_count :
                  Cardinality({k \in 1 .. Len(v) : v[k].index = t - 1})
                      = IF detection_history[t] # <<>> THEN 1 ELSE 0
           /\ \A k \in 1 .. Len(v) :
                  /\ v[k].index \in 0 .. tube_count - 1
                  /\ v[k].avg_height = avg_heights[v[k].index + 1]
           /\ \A j, k \in 1 .. Len(v) :
                  j < k => /\ ~RatGreater(v[k].avg_height, v[j].avg_height)
                           /\ v[k].avg_height = v[j].avg_height
                                  => v[j].index < v[k].index

\* two regions listed with equal averages, and one region left out
C9_Witness ==
    /\ ret.op = "compare_genotypes"
    /\ Len(ret.value) = 2
    /\ ret.value[1].avg_height = ret.value[2].avg_height

\* C10: auto-split of a capture area (x, y, w, h) into n tubes yields n
\* regions, region i being (x + i*(w div n), y, w div n, h); with no capture
\* area the whole frame is split; (100,50,400,300) into 4 gives the four
\* regions of width 100 at x = 100, 200, 300, 400.
C10_AutoSplitRegions ==
    (ret.op = "auto_detect_tubes" /\ ret.raised = "none")
        => LET a == IF ret.arg[1] = NoRoi
                    THEN <<0, 0, FrameWidth, FrameHeight>> ELSE ret.arg[1]
               n == tube_count
           IN  /\ ret.arg[2] => n = ret.arg[3]
               /\ Len(ret.value) = n
               /\ tube_regions = ret.value
               /\ \A i \in 0 .. n - 1 :
                      ret.value[i + 1] =
                          <<a[1] + i * (a[3] \div n), a[2], a[3] \div n, a[4]>>
               /\ (ret.arg[1] = <<100, 50, 400, 300>> /\ n = 4)
                      => ret.value = << <<100, 50, 100, 300>>,
                                        <<200, 50, 100, 300>>,
                                        <<300, 50, 100, 300>>,
                                        <<400, 50, 100, 300>> >>

C10_Witness ==
    /\ ret.op = "auto_detect_tubes" /\ ret.raised = "none"
    /\ ret.arg = << <<100, 50, 400, 300>>, TRUE, 4 >>
    /\ Len(tube_regions) = 4
\* the blobs of tube t over all frames, in processing order
RECURSIVE BlobsOf(_, _)
BlobsOf(all, t) ==
    IF all = <<>> THEN <<>> ELSE Head(all)[t] \o BlobsOf(Tail(all), t)

\* C6: when all blobs supplied for a region over the frames lie pairwise less
\* than 10 px apart, the merge yields exactly one blob for the region, and its
\* height is the maximum of the supplied heights.
C6_SameLocationMergesToMax ==
    ret.op = "merge_detection_results"
        => LET in == BlobsOf(ret.arg, 1)
               out == ret.value[1]
           IN  (/\ in # <<>>
                /\ \A i, j \in 1 .. Len(in) :
                       (in[i][1] - in[j][1]) * (in[i][1] - in[j][1])
                         + (in[i][2] - in[j][2]) * (in[i][2] - in[j][2]) < 100)
                   => /\ ~out.none
                      /\ Len(out.flies) = 1
                      /\ \A i \in 1 .. Len(in) : out.flies[1][3] >= in[i][3]
                      /\ \E i \in 1 .. Len(in) : out.flies[1] = in[i]

\* three frames, one blob each at nearby positions, heights 40, 55, 38
C6_Witness ==
    /\ ret.op = "merge_detection_results"
    /\ ret.arg = << << << <<100, 200, 40>> >> >>,
                    << << <<106, 200, 55>> >> >>,
                    << << <<103, 204, 38>> >> >> >>
    /\ ret.value = << List(<< <<106, 200, 55>> >>) >>
\* C4: a manual add to a tube immediately followed by undo leaves the blobs
\* of that tube as they were before the add, same blobs in the same order
\* (the add appends its blob, so before it the tube held all but the last).
C4_AddThenUndoRestores ==
    [][(/\ ret.op = "on_fly_selected"
        /\ ret.raised = "none"
        /\ ret.value = "added"
        /\ ret'.op = "undo_last_selection")
          => LET t == PyIndex(detection_results, ret.arg[1])
                 flies == detection_results[t].flies
             IN  detection_results'[t].flies = SubSeq(flies, 1, Len(flies) - 1)
       ]_vars

\* C5: undo with an empty stack of manual edits changes neither the current
\* results nor the stack, raises nothing and reports "nothing to undo".
C5_UndoOnEmptyStack ==
    [][(manual_selection_history = <<>> /\ ret'.op = "undo_last_selection")
          => /\ ret'.raised = "none"
             /\ ret'.value = "nothing to undo"
             /\ UNCHANGED <<has_detection_results, detection_results,
                            manual_selection_history>>
       ]_vars

\* undo was called on an empty stack while a tube held a blob
C5_Witness ==
    /\ ret.op = "undo_last_selection"
    /\ ret.value = "nothing to undo"
    /\ manual_selection_history = <<>>
    /\ has_detection_results
    /\ \E t \in 1 .. Len(detection_results) : detection_results[t].flies # <<>>

\* C11: every region the auto-split produces from a capture area of positive
\* width and height, for a tube count of at least 1, has width > 0 and
\* height > 0, also when the count exceeds the area's width in pixels.
C11_SplitRegionsPositive ==
    (ret.op = "auto_detect_tubes" /\ ret.raised = "none")
        => LET a == IF ret.arg[1] = NoRoi
                    THEN <<0, 0, FrameWidth, FrameHeight>> ELSE ret.arg[1]
           IN  (a[3] > 0 /\ a[4] > 0 /\ tube_count >= 1)
                   => \A t \in 1 .. Len(ret.value) :
                          ret.value[t][3] > 0 /\ ret.value[t][4] > 0

\* C12: the value export_data returned is a snapshot: a later call on the
\* detector (detection pass, reset, label or region change) leaves the value
\* the caller holds unchanged, and a write of the caller into that value
\* leaves the detector unchanged.
C12_ExportIsSnapshot ==
    [][/\ (/\ exported.made
           /\ ret'.op \in {"detect_all_tubes", "reset_data", "set_tube_region",
                           "set_genotype_name", "set_background"})
              => ExportedValue' = ExportedValue
       /\ ret'.op = "data['genotype_names'][i] = name"
              => UNCHANGED detVars
      ]_vars

LargestOf(all, t) ==
    IF \A k \in 1 .. Len(all) : all[k][t] = <<>> THEN 0
    ELSE CHOOSE m \in 0 .. FrameHeight :
                 /\ \E k \in 1 .. Len(all) : \E j \in 1 .. Len(all[k][t]) :
                        all[k][t][j][3] = m
                 /\ \A k \in 1 .. Len(all) : \A j \in 1 .. Len(all[k][t]) :
                        all[k][t][j][3] <= m

\* C14 as stated: over single passes and final-frame detection runs the
\* max_height of a region never decreases.
C14_MaxNeverDecreases ==
    [][ret'.op \in {"detect_all_tubes", "final_frame_detection"}
          => \A t \in 1 .. tube_count : max_heights'[t] >= max_heights[t]
       ]_vars

\* C14 (amended): a single detection pass leaves max_height at the larger of
\* the old max_height and the pass's current height, so it never decreases
\* over single passes; a final-frame detection run first resets the data, so
\* after it max_height is the largest height its own three passes saw,
\* whatever it was before.
C14_MaxPersistsWithinRun ==
    [][/\ ret'.op = "detect_all_tubes"
            => \A t \in 1 .. tube_count :
                   /\ max_heights'[t] >= max_heights[t]
                   /\ max_heights'[t]
                          = Max(max_heights[t], climbing_heights'[t])
       /\ (ret'.op = "final_frame_detection" /\ ret'.arg # <<>>)
            => \A t \in 1 .. tube_count :
                   max_heights'[t] = LargestOf(ret'.value.all, t)
       ]_vars

\* a final-frame run whose earlier pass saw 55 and whose last pass saw 40
C14_Witness ==
    /\ ret.op = "final_frame_detection" /\ ret.raised = "none"
    /\ ret.arg # <<>>
    /\ max_heights[1] = 55
    /\ climbing_heights[1] = 40

\* C15: after every detection pass, avg_height of every region is the mean of
\* the region's history when the history is not empty and 0 when it is empty.
C15_AvgIsMeanOfHistory ==
    (ret.op = "detect_all_tubes" /\ ret.raised = "none")
        => \A t \in 1 .. tube_count :
               avg_heights[t] = IF detection_history[t] = <<>> THEN Zero
                                ELSE Mean(detection_history[t])

\* C16: for every region the merged output holds between 0 and as many blobs
\* as were supplied for that region over all frames, and every output blob is
\* one of the blobs supplied for that same region.
C16_MergedFromOwnRegion ==
    ret.op = "merge_detection_results"
        => /\ Len(ret.value) = Len(ret.arg[1])
           /\ \A t \in 1 .. Len(ret.value) :
                  LET in == BlobsOf(ret.arg, t)
                      out == ret.value[t].flies
                  IN  /\ Len(out) >= 0
                      /\ Len(out) <= Len(in)
                      /\ \A k \in 1 .. Len(out) :
                             \E i \in 1 .. Len(in) : out[k] = in[i]

\* two tubes whose blobs of one frame lie less than 10 px apart across the
\* tubes, a second frame bringing a higher blob to the first tube only
C16_Witness ==
    /\ ret.op = "merge_detection_results"
    /\ ret.arg = << << << <<100, 200, 40>> >>, << <<106, 200, 55>> >> >>,
                    << << <<106, 200, 55>>, <<112, 200, 40>> >>, <<>> >> >>
    /\ ret.value = << List(<< <<106, 200, 55>>, <<112, 200, 40>> >>),
                      List(<< <<106, 200, 55>> >>) >>

\* C17: after seek_frame(total_frames - 1), next_frame() makes the frame
\* counter total_frames.
C17_CounterPassesLastFrame ==
    [][(/\ ret.op = "seek_frame"
        /\ ret.arg = total_frames - 1
        /\ ret.value = TRUE
        /\ ret'.op = "next_frame")
          => current_frame' = total_frames
       ]_vars

\* the merge in which a blob is compared with the blob each cluster holds
FirstNearKept(clusters, fly) ==
    LET hits == {k \in 1 .. Len(clusters) : Near(fly, clusters[k].fly)}
    IN  IF hits = {} THEN 0 ELSE CHOOSE k \in hits : \A j \in hits : k <= j

AddFlyKept(clusters, fly) ==
    LET k == FirstNearKept(clusters, fly) IN
    IF k = 0 THEN Append(clusters, [key |-> <<fly[1], fly[2]>>, fly |-> fly])
    ELSE IF fly[3] > clusters[k].fly[3]
         THEN [clusters EXCEPT ![k].fly = fly]
         ELSE clusters

RECURSIVE MergeKept(_, _)
MergeKept(clusters, flies) ==
    IF flies = <<>> THEN clusters
    ELSE MergeKept(AddFlyKept(clusters, Head(flies)), Tail(flies))

\* C18: the distance that decides whether a blob joins a cluster is measured
\* to the blob the cluster currently holds (the highest seen so far), not to
\* the blob that first anchored the cluster.
C18_DistanceToRepresentative ==
    ret.op = "merge_detection_results"
        => \A t \in 1 .. Len(ret.value) :
               LET kept == MergeKept(<<>>, BlobsOf(ret.arg, t))
               IN  ret.value[t].flies
                       = [k \in 1 .. Len(kept) |-> kept[k].fly]

\* C19: the merge is greedy in processing order. A blob starts a cluster when
\* it lies 10 px or more (exactly 10 included) from the position that started
\* every existing cluster; otherwise it joins the first cluster, in creation
\* order, that it lies strictly less than 10 px from, and no other. The output
\* lists one blob per cluster in creation order, the first of the cluster's
\* highest blobs.
C19_GreedyFirstCluster ==
    ret.op = "merge_detection_results"
        => LET in == BlobsOf(ret.arg, 1)
               n == Len(in)
               out == ret.value[1].flies
               Close(i, j) ==
                   (in[i][1] - in[j][1]) * (in[i][1] - in[j][1])
                     + (in[i][2] - in[j][2]) * (in[i][2] - in[j][2]) < 100
               Starts[i \in 1 .. n] ==
                   \A j \in 1 .. i - 1 : Starts[j] => ~Close(i, j)
               anchors == {i \in 1 .. n : Starts[i]}
               Home(i) ==
                   IF i \in anchors THEN i
                   ELSE CHOOSE a \in anchors :
                            /\ a < i /\ Close(i, a)
                            /\ \A b \in anchors : b < a => ~Close(i, b)
               Members(a) == {i \in 1 .. n : Home(i) = a}
               Kept(a) ==
                   CHOOSE i \in Members(a) :
                       /\ \A j \in Members(a) : in[j][3] <= in[i][3]
                       /\ \A j \in Members(a) :
                              in[j][3] = in[i][3] => i <= j
               Rank(a) == Cardinality({b \in anchors : b <= a})
           IN  /\ Len(out) = Cardinality(anchors)
               /\ \A a \in anchors : out[Rank(a)] = in[Kept(a)]

\* a blob exactly 10 px from the first one, offset (6, 8): two clusters, in
\* creation order
C19_Witness ==
    /\ ret.op = "merge_detection_results"
    /\ ret.arg = << << << <<100, 200, 40>> >> >>,
                    << << <<106, 208, 55>> >> >> >>
    /\ ret.value = << List(<< <<100, 200, 40>>, <<106, 208, 55>> >>) >>

\* C20: the frame the ranker selects lies in the window [target - 10,
\* target + 10] clamped to [0, total_frames - 1], no frame of the window has a
\* higher sharpness score, and no frame of the window with the same score
\* has a smaller frame number.
C20_SharpestFirstInScan ==
    (ret.op = "get_top_3_sharpest_frames" /\ ret.raised = "none")
        => LET target == ret.arg[1]
               score == ret.arg[2]
               lo == IF target - 10 > 0 THEN target - 10 ELSE 0
               hi == IF target + 10 < total_frames - 1
                     THEN target + 10 ELSE total_frames - 1
               s == ret.value.sharpest
           IN  /\ lo <= s /\ s <= hi
               /\ \A f \in lo .. hi :
                      /\ score[f + 1] <= score[s + 1]
                      /\ score[f + 1] = score[s + 1] => s <= f

\* target 0 in a video of 12 frames: frame 11, outside the window, is the
\* only sharper one; frames 0..10 tie and frame 0 is selected
C20_Witness ==
    /\ ret.op = "get_top_3_sharpest_frames" /\ ret.raised = "none"
    /\ total_frames = 12
    /\ ret.arg = <<0, <<1, 1, 1, 1, 1, 1, 1, 1, 1, 1, 1, 2>> >>
    /\ ret.value.sharpest = 0
    /\ ret.value.frame_numbers = <<0, 1, 2>>

\* C21: when the clamped window holds at least three frames, the ranker
\* returns three distinct frame numbers of the window, ascending and
\* consecutive, the sharpest frame among them; a sharpest frame at the first
\* or last frame of the window gives (s, s+1, s+2) or (s-2, s-1, s).
C21_ThreeConsecutiveFrames ==
    (ret.op = "get_top_3_sharpest_frames" /\ ret.raised = "none")
        => LET target == ret.arg[1]
               lo == IF target - 10 > 0 THEN target - 10 ELSE 0
               hi == IF target + 10 < total_frames - 1
                     THEN target + 10 ELSE total_frames - 1
               s == ret.value.sharpest
               ns == ret.value.frame_numbers
           IN  hi - lo + 1 >= 3
                   => /\ Len(ns) = 3
                      /\ lo <= ns[1] /\ ns[3] <= hi
                      /\ ns[2] = ns[1] + 1 /\ ns[3] = ns[2] + 1
                      /\ \E k \in 1 .. 3 : ns[k] = s
                      /\ s = lo => ns[1] = s
                      /\ s = hi => ns[3] = s

\* the sharpest frame is the last frame of the window [1, 11]
C21_Witness ==
    /\ ret.op = "get_top_3_sharpest_frames" /\ ret.raised = "none"
    /\ total_frames = 12
    /\ ret.arg = <<11, <<1, 1, 1, 1, 1, 1, 1, 1, 1, 1, 1, 2>> >>
    /\ ret.value.sharpest = 11
    /\ ret.value.frame_numbers = <<9, 10, 11>>

\* C22: undo on a non-empty stack pops the most recent edit, leaves every
\* other tube's blobs as they were, and removes from the edit's tube the first
\* blob in list order with |x - edit x| < 5 and |height - edit height| < 3;
\* when no blob matches, no result changes.
C22_UndoPopsLastRemovesFirstMatch ==
    [][(manual_selection_history # <<>> /\ ret'.op = "undo_last_selection")
          => LET n == Len(manual_selection_history)
                 edit == manual_selection_history[n]
                 d == PyIndex(detection_results, edit[1])
                 Hit(fly) ==
                     /\ fly[1] - edit[2] < 5 /\ edit[2] - fly[1] < 5
                     /\ fly[3] - edit[4] < 3 /\ edit[4] - fly[3] < 3
             IN  /\ manual_selection_history'
                        = SubSeq(manual_selection_history, 1, n - 1)
                 /\ Len(detection_results') = Len(detection_results)
                 /\ \A t \in 1 .. Len(detection_results) :
                        LET old == detection_results[t].flies
                            new == detection_results'[t].flies
                            hits == {k \in 1 .. Len(old) : Hit(old[k])}
                        IN  IF t # d \/ hits = {}
                            THEN new = old
                            ELSE \E k \in hits :
                                     /\ \A j \in hits : k <= j
                                     /\ new = SubSeq(old, 1, k - 1)
                                                \o SubSeq(old, k + 1, Len(old))
       ]_vars

\* two adds to the first tube, then undo: the edit (128, 50, 300) is popped
\* and the first matching blob, (125, 52, 298), is the one removed
C22_Witness ==
    /\ ret.op = "undo_last_selection"
    /\ ret.value = "undone"
    /\ manual_selection_history = << <<0, 125, 52, 298>> >>
    /\ detection_results[1] = List(<< <<128, 50, 300>> >>)

\* C23: a manual add and an undo change only the current results and the undo
\* stack: tube count, regions, labels, background, detection parameters,
\* history and current, maximum and average heights stay as they were.
C23_ManualEditsTouchResultsOnly ==
    [][ret'.op \in {"on_fly_selected", "undo_last_selection"}
          => UNCHANGED <<tube_count, tube_regions, genotype_names,
                         background_frame, threshold, min_area, max_area,
                         detection_history, fly_positions, climbing_heights,
                         max_heights, avg_heights>>
       ]_vars

\* a blob added by hand next to the one a final-frame run detected at height
\* 55, the statistics of the run still in place
C23_Witness ==
    /\ ret.op = "on_fly_selected" /\ ret.value = "added"
    /\ Len(detection_results[1].flies) = 2
    /\ manual_selection_history # <<>>
    /\ max_heights[1] = 55
    /\ detection_history[1] = <<55>>
    /\ avg_heights[1] = [num |-> 55, den |-> 1]

\* C24: final-frame detection requested with no video loaded, no background
\* or a region unset returns without raising and leaves the current results,
\* the history, the current, maximum and average heights and the undo stack
\* unchanged.
C24_NotReadyIsAbsorbed ==
    [][(/\ ret'.op = "final_frame_detection"
        /\ \/ video_capture # "opened"
           \/ background_frame = "None"
           \/ \E t \in 1 .. tube_count : tube_regions[t] = None)
          => /\ ret'.raised = "none"
             /\ UNCHANGED <<has_detection_results, detection_results,
                            detection_history, fly_positions,
                            climbing_heights, max_heights, avg_heights,
                            manual_selection_history>>
       ]_vars

\* a request without background, with a blob added by hand on the stack
C24_Witness ==
    /\ ret.op = "final_frame_detection"
    /\ ret.raised = "none" /\ ret.arg = <<>>
    /\ video_capture = "opened"
    /\ background_frame = "None"
    /\ tube_regions[1] # None
    /\ manual_selection_history # <<>>
    /\ detection_results[1].flies # <<>>

\* C25: a final-frame detection run either installs the merged result as the
\* current results, or leaves the previous current results and statistics as
\* they were; it never ends with the old results erased and no new result.
C25_FinalRunIsAtomic ==
    [][ret'.op = "final_frame_detection"
          => IF ret'.raised = "none" /\ ret'.arg # <<>>
             THEN /\ has_detection_results'
                  /\ detection_results' = ret'.value.merged
             ELSE UNCHANGED <<has_detection_results, detection_results,
                              detection_history, fly_positions,
                              climbing_heights, max_heights, avg_heights>>
       ]_vars

\* C26: in the merged output of a region any two distinct blobs are at least
\* 10 px apart.
C26_MergedBlobsApart ==
    ret.op = "merge_detection_results"
        => \A t \in 1 .. Len(ret.value) :
               LET out == ret.value[t].flies
               IN  \A i, j \in 1 .. Len(out) :
                       i < j
                         => (out[i][1] - out[j][1]) * (out[i][1] - out[j][1])
                              + (out[i][2] - out[j][2]) * (out[i][2] - out[j][2])
                              >= 100

\* C27: every entry (tube, x, y, height) of the undo stack is a blob present
\* in the current result of that tube.
C27_StackEntriesAreCurrentBlobs ==
    \A k \in 1 .. Len(manual_selection_history) :
        LET edit == manual_selection_history[k]
            d == PyIndex(detection_results, edit[1])
        IN  /\ has_detection_results
            /\ d # 0
            /\ \E j \in 1 .. Len(detection_results[d].flies) :
                   detection_results[d].flies[j] = <<edit[2], edit[3], edit[4]>>

\* C28: whenever detection_results exists it has exactly tube_count entries.
C28_ResultsHaveTubeCountEntries ==
    has_detection_results => Len(detection_results) = tube_count

\* C29: a split into the number of tubes already configured (the count passed
\* to auto_detect_tubes) leaves the labels, the history and the current, max
\* and avg heights as they were.
C29_SameCountSplitKeepsData ==
    [][(/\ ret'.op = "auto_detect_tubes"
        /\ ret'.raised = "none"
        /\ ret'.arg[2]
        /\ ret'.arg[3] = tube_count)
       => UNCHANGED <<genotype_names, detection_history, climbing_heights,
                      max_heights, avg_heights>>]_vars

\* C30: after every left-button release on the display, in any mode, no tube
\* is being dragged: dragging_tube is false and dragged_tube_index is -1.
C30_ReleaseEndsDrag ==
    [][(\E pos \in MouseSet : MouseReleaseEvent(pos))
       => (~dragging_tube' /\ dragged_tube_index' = -1)]_vars

====
